---------------------------- MODULE Spec2Model ----------------------------
(***************************************************************************)
(* A model of kummitusjahti (src/main.py): the entity movement and         *)
(* collision engine of a small pygame platformer and the game loop that    *)
(* drives it.  Rendering is left out; everything that changes the          *)
(* positions, velocities, collision flags, the object list, the trash set  *)
(* and the two session counters is translated statement by statement.      *)
(*                                                                         *)
(* Coordinates are pygame's: x grows to the right, y grows downwards.      *)
(* Python integers are unbounded, and so are the integers used here.       *)
(***************************************************************************)
EXTENDS Integers, Sequences, FiniteSets, TLC

VARIABLES
    objects,          \* Game.__objects: the list of live objects, player first
    trash,            \* Game.__trash: the objects (by identity) to be removed
    keys,             \* Game.__keys: the keys currently held
    player_health,    \* Game.player_health
    coins_collected,  \* Game.coins_collected
    call,             \* where the process is: which call of game_loop runs next
    input             \* the input provider: what the player has done so far

vars == <<objects, trash, keys, player_health, coins_collected, call, input>>

Min(a, b) == IF a <= b THEN a ELSE b
Max(a, b) == IF a >= b THEN a ELSE b

------------------------------------------------------------------------------
(* Values *)

Point(x, y) == [x |-> x, y |-> y]

\* Collision.__init__: no side is blocked
Collision == [left |-> FALSE, right |-> FALSE, top |-> FALSE, bottom |-> FALSE]

\* Game(800, 500) -> Borders(0, x, 0, y)
borders == [left |-> 0, right |-> 800, top |-> 0, bottom |-> 500]

Keys == {"LEFT", "RIGHT", "UP", "DOWN"}

\* The sizes of the images an ImageObject loads; they become the hitboxes.
\* robo.png, hirvio.png and kolikko.png are not part of the source, so the
\* sizes are an input of the construction.  StandardImages are the sizes that
\* make the spawned level fit: a 70 high monster spawned at y = 380 and at
\* y = 130 stands exactly on the walls whose tops are at 450 and at 200.
StandardImages == [PLAYER |-> Point(50, 86), MONSTER |-> Point(50, 70), COIN |-> Point(40, 40)]

\* Game.__spawn_objects: the walls, as (x, y, width, height)
wall_positions ==
    << <<0, 450, 800, 50>>, <<100, 400, 50, 50>>, <<400, 400, 50, 50>>, <<0, 200, 100, 50>>,
       <<350, 200, 450, 50>>, <<200, 250, 50, 50>>, <<400, 150, 50, 50>>, <<750, 150, 50, 50>> >>

monster_positions == << <<300, 380>>, <<650, 130>>, <<450, 130>> >>

coin_positions == << <<0, 0>>, <<4, 4>>, <<15, 2>>, <<8, 7>>, <<13, 8>> >>

\* An object is a record; `id` stands for the identity of the Python object
\* (the trash set and list.remove compare objects by identity).
NewObject(id, type, pos, vel, hitbox) ==
    [id |-> id, type |-> type, pos |-> pos, vel |-> vel, hitbox |-> hitbox,
     collision |-> Collision]

\* spawn_objects as it would be had Monster.__init__ not set the velocity
spawn_objects_monsters_at_rest(img) ==
    << NewObject(1, "PLAYER", Point(20, borders.bottom - 200), Point(0, 0), img.PLAYER) >>
    \o [i \in 1..Len(wall_positions) |->
          NewObject(1 + i, "WALL", Point(wall_positions[i][1], wall_positions[i][2]),
                    Point(0, 0), Point(wall_positions[i][3], wall_positions[i][4]))]
    \o [i \in 1..Len(monster_positions) |->
          NewObject(1 + Len(wall_positions) + i, "MONSTER",
                    Point(monster_positions[i][1], monster_positions[i][2]),
                    Point(0, 0), img.MONSTER)]
    \o [i \in 1..Len(coin_positions) |->
          NewObject(1 + Len(wall_positions) + Len(monster_positions) + i, "COIN",
                    Point(coin_positions[i][1] * 50, coin_positions[i][2] * 50),
                    Point(0, 0), img.COIN)]

\* Game.__spawn_objects with the image sizes img: player, walls, monsters, coins
spawn_objects(img) ==
    << NewObject(1, "PLAYER", Point(20, borders.bottom - 200), Point(0, 0), img.PLAYER) >>
    \o [i \in 1..Len(wall_positions) |->
          NewObject(1 + i, "WALL", Point(wall_positions[i][1], wall_positions[i][2]),
                    Point(0, 0), Point(wall_positions[i][3], wall_positions[i][4]))]
    \o [i \in 1..Len(monster_positions) |->
          NewObject(1 + Len(wall_positions) + i, "MONSTER",
                    Point(monster_positions[i][1], monster_positions[i][2]),
                    Point(1, 0), img.MONSTER)]
    \o [i \in 1..Len(coin_positions) |->
          NewObject(1 + Len(wall_positions) + Len(monster_positions) + i, "COIN",
                    Point(coin_positions[i][1] * 50, coin_positions[i][2] * 50),
                    Point(0, 0), img.COIN)]

\* Object.type is read-only: the type of the object with a given identity
TypeOf(id) ==
    IF id = 1 THEN "PLAYER"
    ELSE IF id <= 1 + Len(wall_positions) THEN "WALL"
    ELSE IF id <= 1 + Len(wall_positions) + Len(monster_positions) THEN "MONSTER"
    ELSE "COIN"

------------------------------------------------------------------------------
(* Velocity updates *)

\* Player.update_velocity as it would be had gravity been taken off the
\* velocity the call started with, losing the decay of a rising player
Player_update_velocity_gravity_first(self) ==
    LET vy1 == IF self.vel.y < 0 THEN self.vel.y + 1
               ELSE IF self.vel.y > 0 THEN self.vel.y - 1 ELSE self.vel.y
        vx1 == IF self.vel.x > 0 THEN self.vel.x - 1
               ELSE IF self.vel.x < 0 THEN self.vel.x + 1 ELSE self.vel.x
        vy2 == IF ~self.collision.bottom THEN self.vel.y - 2 ELSE vy1
    IN  [self EXCEPT !.vel = Point(vx1, vy2)]

\* Player.update_velocity as it would be had gravity not depended on the
\* bottom flag
Player_update_velocity_always_falling(self) ==
    LET vy1 == IF self.vel.y < 0 THEN self.vel.y + 1
               ELSE IF self.vel.y > 0 THEN self.vel.y - 1 ELSE self.vel.y
        vx1 == IF self.vel.x > 0 THEN self.vel.x - 1
               ELSE IF self.vel.x < 0 THEN self.vel.x + 1 ELSE self.vel.x
    IN  [self EXCEPT !.vel = Point(vx1, vy1 - 2)]

\* Player.update_velocity
Player_update_velocity(self) ==
    LET vy1 == IF self.vel.y < 0 THEN self.vel.y + 1
               ELSE IF self.vel.y > 0 THEN self.vel.y - 1 ELSE self.vel.y
        vx1 == IF self.vel.x > 0 THEN self.vel.x - 1
               ELSE IF self.vel.x < 0 THEN self.vel.x + 1 ELSE self.vel.x
        vy2 == IF ~self.collision.bottom THEN vy1 - 2 ELSE vy1
    IN  [self EXCEPT !.vel = Point(vx1, vy2)]

\* Monster.update_velocity as it would be had the right flag been tested first
Monster_update_velocity_right_first(self) ==
    IF self.collision.right THEN [self EXCEPT !.vel = Point(-1, 0)]
    ELSE IF self.collision.left THEN [self EXCEPT !.vel = Point(1, 0)]
    ELSE self

\* Monster.update_velocity
Monster_update_velocity(self) ==
    IF self.collision.left THEN [self EXCEPT !.vel = Point(1, 0)]
    ELSE IF self.collision.right THEN [self EXCEPT !.vel = Point(-1, 0)]
    ELSE self

\* Game.__update_velocities, the PLAYER branch of the loop body
player_keys(obj, ks) ==
    LET o1 == IF "UP" \in ks /\ obj.collision.bottom
              THEN [obj EXCEPT !.vel = Point(obj.vel.x, 30)] ELSE obj
        o2 == IF "LEFT" \in ks THEN [o1 EXCEPT !.vel = Point(-8, o1.vel.y)] ELSE o1
        o3 == IF "RIGHT" \in ks THEN [o2 EXCEPT !.vel = Point(8, o2.vel.y)] ELSE o2
    IN  o3

\* Game.__update_velocities
update_velocities(objs, ks) ==
    [i \in 1..Len(objs) |->
        IF objs[i].type = "PLAYER" THEN player_keys(objs[i], ks)
        ELSE IF objs[i].type = "MONSTER" THEN Monster_update_velocity(objs[i])
        ELSE objs[i]]

------------------------------------------------------------------------------
(* Movement *)

\* clamp_x as it would be had the margin of 20 been left out on the left side
clamp_x_without_left_margin(self) ==
    Min(borders.right - 20 - self.hitbox.x, Max(borders.left, self.pos.x + self.vel.x))

\* the x of the first line of Object.move and of Monster.move
clamp_x(self) ==
    Min(borders.right - 20 - self.hitbox.x, Max(borders.left + 20, self.pos.x + self.vel.x))

\* the y of the second line of Object.move and of Monster.move
clamp_y(self) ==
    Min(borders.bottom - self.hitbox.y, self.pos.y - self.vel.y)

\* Object.move, after its call of update_velocity: self has the new velocity
blocked_move(self) ==
    LET x == clamp_x(self)
        y == clamp_y(self)
        new_x == IF (self.collision.right /\ x > self.pos.x)
                    \/ (self.collision.left /\ x < self.pos.x) THEN self.pos.x ELSE x
        new_y == IF (self.collision.bottom /\ y > self.pos.y)
                    \/ (self.collision.top /\ y < self.pos.y) THEN self.pos.y ELSE y
    IN  [self EXCEPT !.pos = Point(new_x, new_y)]

\* Object.move as the Player inherits it
Object_move(self) == blocked_move(Player_update_velocity(self))

\* Monster.move
Monster_move(self) == [self EXCEPT !.pos = Point(clamp_x(self), clamp_y(self))]

\* Game.__move_objects as it would be had it moved every object that is not a
\* monster with Object.move
move_objects_every_object(objs) ==
    [i \in 1..Len(objs) |->
        IF objs[i].type = "MONSTER" THEN Monster_move(objs[i]) ELSE Object_move(objs[i])]

\* Game.__move_objects
move_objects(objs) ==
    [i \in 1..Len(objs) |->
        IF objs[i].type = "PLAYER" THEN Object_move(objs[i])
        ELSE IF objs[i].type = "MONSTER" THEN Monster_move(objs[i])
        ELSE objs[i]]

------------------------------------------------------------------------------
(* Collision detection *)

\* handle_coin_collision as it would be had the hook of every kind of object
\* been the player's
handle_coin_collision_of_any_kind(self, coin, tr) == tr \cup {coin.id}

\* Player.handle_coin_collision; Object.handle_coin_collision does nothing
handle_coin_collision(self, coin, tr) ==
    IF self.type = "PLAYER" THEN tr \cup {coin.id} ELSE tr

\* Player.handle_monster_collision; Object.handle_monster_collision does nothing
handle_monster_collision(self, monster, tr) ==
    IF self.type = "PLAYER" THEN tr \cup {monster.id} ELSE tr

own_right_border(o) == o.pos.x + o.hitbox.x
own_bottom_border(o) == o.pos.y + o.hitbox.y

\* the four conditions of Object.check_collision
right_hit(self, other) ==
    /\ own_right_border(self) >= other.pos.x
    /\ self.pos.x <= other.pos.x
    /\ ~(own_bottom_border(self) < other.pos.y \/ self.pos.y > own_bottom_border(other))

left_hit(self, other) ==
    /\ self.pos.x <= own_right_border(other)
    /\ own_right_border(self) >= own_right_border(other)
    /\ ~(own_bottom_border(self) < other.pos.y \/ self.pos.y > own_bottom_border(other))

bottom_hit(self, other) ==
    /\ own_bottom_border(self) >= other.pos.y
    /\ own_bottom_border(self) <= own_bottom_border(other)
    /\ ~(own_right_border(self) < other.pos.x \/ self.pos.x > own_right_border(other))

top_hit(self, other) ==
    /\ self.pos.y <= own_bottom_border(other)
    /\ self.pos.y >= other.pos.y
    /\ ~(own_right_border(self) < other.pos.x \/ self.pos.x > own_right_border(other))

\* the hooks Object.check_collision calls for one side: the right and the left
\* side call both hooks, the bottom and the top side only the coin hook
side_hooks(self, other, tr, hit, with_monster) ==
    LET t1 == IF hit /\ other.type = "COIN" THEN handle_coin_collision(self, other, tr) ELSE tr
        t2 == IF hit /\ with_monster /\ other.type = "MONSTER"
              THEN handle_monster_collision(self, other, t1) ELSE t1
    IN  t2

\* check_collision as it would be had each flag been assigned the outcome of
\* its condition (flag = condition) instead of being set when the condition holds
check_collision_assigning(self, other, tr) ==
    LET r == right_hit(self, other)
        l == left_hit(self, other)
        b == bottom_hit(self, other)
        t == top_hit(self, other)
        t1 == side_hooks(self, other, tr, r, TRUE)
        t2 == side_hooks(self, other, t1, l, TRUE)
        t3 == side_hooks(self, other, t2, b, FALSE)
        t4 == side_hooks(self, other, t3, t, FALSE)
    IN  [self |-> [self EXCEPT !.collision = [left |-> l, right |-> r, top |-> t, bottom |-> b]],
         trash |-> t4]

\* Object.check_collision: the new self and the new trash
check_collision(self, other, tr) ==
    LET r == right_hit(self, other)
        l == left_hit(self, other)
        b == bottom_hit(self, other)
        t == top_hit(self, other)
        t1 == side_hooks(self, other, tr, r, TRUE)
        t2 == side_hooks(self, other, t1, l, TRUE)
        t3 == side_hooks(self, other, t2, b, FALSE)
        t4 == side_hooks(self, other, t3, t, FALSE)
    IN  [self |-> [self EXCEPT !.collision =
                      [left   |-> self.collision.left \/ l,
                       right  |-> self.collision.right \/ r,
                       top    |-> self.collision.top \/ t,
                       bottom |-> self.collision.bottom \/ b]],
         trash |-> t4]


\* one call objs[i].check_collision(objs[j], trash) of Game.__check_collisions
checked(objs, tr, i, j) ==
    LET r == check_collision(objs[i], objs[j], tr)
    IN  [objects |-> [objs EXCEPT ![i] = r.self], trash |-> r.trash]

\* obj.collision = Collision() for the object at index i
reset_collision(objs, i) == [objs EXCEPT ![i].collision = Collision]

\* Game.__check_collisions, the inner loop `for o2 in self.__objects` from the
\* j-th object on, with the monster at index k as self
RECURSIVE inner_loop(_, _, _, _)
inner_loop(objs, tr, k, j) ==
    IF j > Len(objs) THEN [objects |-> objs, trash |-> tr]
    ELSE IF objs[k].id = objs[j].id THEN inner_loop(objs, tr, k, j + 1)
    ELSE LET c == checked(objs, tr, k, j)
         IN  inner_loop(c.objects, c.trash, k, j + 1)

\* Game.__check_collisions, the loop `for obj in self.objects[1:]` from the
\* k-th object on
RECURSIVE outer_loop(_, _, _)
outer_loop(objs, tr, k) ==
    IF k > Len(objs) THEN [objects |-> objs, trash |-> tr]
    ELSE LET o1 == reset_collision(objs, k)
             c  == checked(o1, tr, 1, k)
             m  == IF o1[k].type = "MONSTER"
                   THEN inner_loop(c.objects, c.trash, k, 1) ELSE c
         IN  outer_loop(m.objects, m.trash, k + 1)

\* Game.__check_collisions
check_collisions(objs, tr) == outer_loop(reset_collision(objs, 1), tr, 2)

------------------------------------------------------------------------------
(* Cleanup *)

\* remove as it would be had the index been off by one: the object after the
\* item goes instead of the item
remove_next(objs, id) ==
    IF \E i \in 1..Len(objs) : objs[i].id = id
    THEN LET i == CHOOSE n \in 1..Len(objs) :
                    objs[n].id = id /\ \A m \in 1..(n - 1) : objs[m].id # id
         IN  SubSeq(objs, 1, i) \o SubSeq(objs, i + 2, Len(objs))
    ELSE objs

\* self.__objects.remove(item) inside try/except: the first occurrence of the
\* item is removed; when the item is not in the list the ValueError is swallowed
remove(objs, id) ==
    IF \E i \in 1..Len(objs) : objs[i].id = id
    THEN LET i == CHOOSE n \in 1..Len(objs) :
                    objs[n].id = id /\ \A m \in 1..(n - 1) : objs[m].id # id
         IN  SubSeq(objs, 1, i - 1) \o SubSeq(objs, i + 1, Len(objs))
    ELSE objs

\* clean_trash as it would be had the coin counter been raised for every item
\* of the trash
RECURSIVE clean_trash_counting_every_item(_, _, _, _)
clean_trash_counting_every_item(objs, tr, health, coins) ==
    IF tr = {}
    THEN [objects |-> objs, trash |-> {}, player_health |-> health, coins_collected |-> coins]
    ELSE LET item == CHOOSE i \in tr : TRUE
         IN  clean_trash_counting_every_item(remove(objs, item), tr \ {item},
                         IF TypeOf(item) = "MONSTER" THEN health - 1 ELSE health,
                         coins + 1)

\* Game.__clean_trash: the loop over the items of the trash set, then clear()
RECURSIVE clean_trash(_, _, _, _)
clean_trash(objs, tr, health, coins) ==
    IF tr = {}
    THEN [objects |-> objs, trash |-> {}, player_health |-> health, coins_collected |-> coins]
    ELSE LET item == CHOOSE i \in tr : TRUE
         IN  clean_trash(remove(objs, item), tr \ {item},
                         IF TypeOf(item) = "MONSTER" THEN health - 1 ELSE health,
                         IF TypeOf(item) = "COIN" THEN coins + 1 ELSE coins)

------------------------------------------------------------------------------
(* The frame and the game loop *)

\* Game.__render_frame: velocities, collisions, movement, cleanup
render_frame(objs, tr, ks, health, coins) ==
    LET o1 == update_velocities(objs, ks)
        cc == check_collisions(o1, tr)
        o3 == move_objects(cc.objects)
    IN  clean_trash(o3, cc.trash, health, coins)

\* Branch as it would be had game_loop tested the health before the coins
Branch_health_first ==
    IF player_health > 0 THEN "frame"
    ELSE IF coins_collected = 5 THEN "win"
    ELSE IF player_health = 0 THEN "over"
    ELSE "none"

\* Branch as it would be had game_loop gone on playing with a health of 0
Branch_playing_at_zero ==
    IF coins_collected = 5 THEN "win"
    ELSE IF player_health >= 0 THEN "frame"
    ELSE "none"

\* the branch an iteration of Game.game_loop takes
Branch ==
    IF coins_collected = 5 THEN "win"
    ELSE IF player_health > 0 THEN "frame"
    ELSE IF player_health = 0 THEN "over"
    ELSE "none"

------------------------------------------------------------------------------
(* Input *)

\* The key sets the exploration lets the player hold.
KeySets == SUBSET {"LEFT", "RIGHT", "UP"}

\* How many iterations the player may act freely after leaving a plan.
MaxFree == 1

\* A plan is a sequence of runs <<keys held, number of iterations>>.
RECURSIVE Expand(_)
Expand(runs) ==
    IF runs = <<>> THEN <<>>
    ELSE [i \in 1..Head(runs)[2] |-> Head(runs)[1]] \o Expand(Tail(runs))

\* A play that collects the five coins and is hit by one monster on the way.
WinningPlay ==
    << <<{}, 6>>, <<{"RIGHT"}, 3>>, <<{}, 3>>, <<{"UP", "RIGHT"}, 3>>, <<{"RIGHT"}, 15>>,
       <<{}, 3>>, <<{"LEFT"}, 3>>, <<{}, 3>>, <<{"UP", "LEFT"}, 3>>, <<{"LEFT"}, 3>>,
       <<{}, 3>>, <<{"UP", "LEFT"}, 3>>, <<{"LEFT"}, 6>>, <<{}, 3>>, <<{"RIGHT"}, 21>>,
       <<{"UP", "RIGHT"}, 3>>, <<{"RIGHT"}, 21>>, <<{"UP", "RIGHT"}, 3>>, <<{"RIGHT"}, 27>>,
       <<{}, 3>>, <<{"RIGHT"}, 6>>, <<{"UP", "RIGHT"}, 3>>, <<{"RIGHT"}, 15>>, <<{}, 5>>,
       <<{"RIGHT"}, 3>>, <<{"UP"}, 3>>, <<{"LEFT"}, 27>>, <<{"UP", "LEFT"}, 3>>,
       <<{"LEFT"}, 30>>, <<{}, 6>>, <<{"RIGHT"}, 12>>, <<{}, 1>>, <<{"UP"}, 3>>,
       <<{"RIGHT"}, 36>>, <<{}, 2>>, <<{"LEFT"}, 2>>, <<{"UP", "RIGHT"}, 2>> >>

\* A play that runs into two monsters.
LosingPlay ==
    << <<{"RIGHT"}, 6>>, <<{"UP", "RIGHT"}, 3>>, <<{"RIGHT"}, 12>>, <<{}, 6>>,
       <<{"RIGHT"}, 21>>, <<{}, 2>>, <<{"UP", "LEFT"}, 3>>, <<{"LEFT"}, 6>>,
       <<{"UP", "RIGHT"}, 3>>, <<{"RIGHT"}, 9>>, <<{}, 3>>, <<{"UP", "RIGHT"}, 3>>,
       <<{"RIGHT"}, 21>>, <<{}, 5>>, <<{"LEFT"}, 2>>, <<{"UP", "RIGHT"}, 2>> >>

\* A play that takes the last coin in the frame in which the second monster is hit.
LastCoinAndLastHitPlay ==
    << <<{}, 6>>, <<{"RIGHT"}, 3>>, <<{}, 3>>, <<{"UP", "RIGHT"}, 3>>, <<{"RIGHT"}, 15>>,
       <<{}, 3>>, <<{"LEFT"}, 3>>, <<{}, 3>>, <<{"UP", "LEFT"}, 3>>, <<{"LEFT"}, 3>>,
       <<{}, 3>>, <<{"UP", "LEFT"}, 3>>, <<{"LEFT"}, 6>>, <<{}, 3>>, <<{"RIGHT"}, 21>>,
       <<{"UP", "RIGHT"}, 3>>, <<{"RIGHT"}, 21>>, <<{"UP", "RIGHT"}, 3>>, <<{"RIGHT"}, 27>>,
       <<{}, 3>>, <<{"RIGHT"}, 6>>, <<{"UP", "RIGHT"}, 3>>, <<{"RIGHT"}, 15>>, <<{}, 5>>,
       <<{"RIGHT"}, 3>>, <<{"UP"}, 3>>, <<{"LEFT"}, 39>>, <<{"UP"}, 3>>, <<{"LEFT"}, 12>>,
       <<{}, 3>>, <<{"LEFT"}, 3>>, <<{}, 6>>, <<{"RIGHT"}, 3>>, <<{"LEFT"}, 3>>,
       <<{"RIGHT"}, 3>>, <<{}, 3>>, <<{"RIGHT"}, 3>>, <<{}, 3>>, <<{"UP"}, 3>>,
       <<{"RIGHT"}, 36>>, <<{}, 71>>, <<{"UP"}, 2>>, <<{}, 6>>, <<{"LEFT"}, 2>>, <<{}, 2>>,
       <<{"LEFT"}, 16>>, <<{"UP", "LEFT"}, 2>>, <<{}, 2>>, <<{"RIGHT"}, 2>>, <<{}, 4>>,
       <<{"LEFT"}, 2>>, <<{}, 12>>, <<{"UP"}, 2>>, <<{"LEFT"}, 16>>, <<{"RIGHT"}, 4>>,
       <<{}, 1>>, <<{"LEFT"}, 2>>, <<{"UP", "RIGHT"}, 2>> >>

\* A play that runs into the monster on the floor, climbs to the platform and
\* waits between the two monsters there until both arrive in the same frame.
TwoMonstersAtOncePlay ==
    << <<{"RIGHT"}, 6>>, <<{"UP", "RIGHT"}, 3>>, <<{"RIGHT"}, 12>>, <<{}, 6>>,
       <<{"RIGHT"}, 21>>, <<{}, 2>>, <<{"UP", "LEFT"}, 3>>, <<{}, 3>>, <<{"LEFT"}, 3>>,
       <<{"UP"}, 3>>, <<{"RIGHT"}, 3>>, <<{}, 3>>, <<{"RIGHT"}, 3>>, <<{}, 3>>,
       <<{"RIGHT"}, 3>>, <<{}, 9>>, <<{"LEFT"}, 3>>, <<{"RIGHT"}, 3>>, <<{}, 6>>,
       <<{"UP", "RIGHT"}, 3>>, <<{"RIGHT"}, 15>>, <<{}, 6>>, <<{"LEFT"}, 6>>,
       <<{"RIGHT"}, 3>>, <<{"UP", "RIGHT"}, 3>>, <<{"RIGHT"}, 3>>, <<{}, 3>>,
       <<{"RIGHT"}, 3>>, <<{}, 3>>, <<{"RIGHT"}, 3>>, <<{}, 9>>, <<{"UP"}, 3>>,
       <<{}, 61>>, <<{"LEFT"}, 9>>, <<{"RIGHT"}, 3>>, <<{}, 3>>, <<{"LEFT"}, 3>>,
       <<{"RIGHT"}, 3>>, <<{}, 3>>, <<{"LEFT"}, 3>>, <<{}, 57>>, <<{"LEFT"}, 2>>,
       <<{"UP", "RIGHT"}, 2>> >>

Plans ==
    << Expand(WinningPlay), Expand(LosingPlay), Expand(LastCoinAndLastHitPlay),
       Expand(TwoMonstersAtOncePlay) >>

\* the plans that agree with what was played so far and go on
Following == {p \in input.plans : input.step < Len(Plans[p])}

\* Game.__handle_events without a QUIT event: the KEYDOWN and KEYUP events of
\* the queue leave some set of keys held.  The player follows a plan, or leaves
\* it and holds any keys, and after MaxFree such choices the queue is empty once
\* more and then the exploration ends.
handle_events ==
    \/ /\ input.free = 0
       /\ \E ks \in {Plans[p][input.step + 1] : p \in Following} :
             /\ keys' = ks
             /\ input' = [input EXCEPT !.step = @ + 1,
                                       !.plans = {p \in Following : Plans[p][input.step + 1] = ks}]
    \/ /\ input.free < MaxFree
       /\ \E ks \in KeySets : keys' = ks
       /\ input' = [input EXCEPT !.free = @ + 1]
    \/ /\ input.free = MaxFree
       /\ keys' = keys
       /\ input' = [input EXCEPT !.free = @ + 1]

\* whether the exploration goes on after this iteration
MoreInput == input.free <= MaxFree

\* Game.game_loop, an iteration with coins_collected == 5: the win screen
WonIteration ==
    /\ call.at = "game_loop"
    /\ Branch = "win"
    /\ handle_events
    /\ UNCHANGED <<objects, trash, player_health, coins_collected, call>>

\* Game.game_loop, an iteration with player_health > 0: a frame
FrameIteration ==
    /\ call.at = "game_loop"
    /\ Branch = "frame"
    /\ MoreInput
    /\ \E f \in {render_frame(objects, trash, keys, player_health, coins_collected)} :
          /\ objects' = f.objects
          /\ trash' = f.trash
          /\ player_health' = f.player_health
          /\ coins_collected' = f.coins_collected
    /\ handle_events
    /\ UNCHANGED call

\* Game.game_loop, an iteration that is neither: the game over screen when
\* player_health == 0, and nothing at all when it is negative
OverIteration ==
    /\ call.at = "game_loop"
    /\ Branch \in {"over", "none"}
    /\ handle_events
    /\ UNCHANGED <<objects, trash, player_health, coins_collected, call>>

\* Game.__handle_events with a QUIT event: exit()
Quit ==
    /\ call.at = "game_loop"
    /\ call' = [at |-> "exit"]
    /\ UNCHANGED <<objects, trash, keys, player_health, coins_collected, input>>

\* Game.__init__
Init ==
    /\ objects = spawn_objects(StandardImages)
    /\ trash = {}
    /\ keys = {}
    /\ player_health = 2
    /\ coins_collected = 0
    /\ call = [at |-> "game_loop"]
    /\ input = [plans |-> 1..Len(Plans), step |-> 0, free |-> 0]

Next == WonIteration \/ FrameIteration \/ OverIteration \/ Quit

Spec == Init /\ [][Next]_vars


------------------------------------------------------------------------------
(* The frame call by call: the same frame, stopped after every call that      *)
(* Game.__render_frame and Game.__check_collisions make                       *)

\* Game.__check_collisions: where the loop goes on after the body for the
\* object at index k
next_object(objs, k) ==
    IF k + 1 > Len(objs) THEN [at |-> "move_objects"] ELSE [at |-> "reset", k |-> k + 1]

\* Game.__render_frame: self.__update_velocities()
UpdateVelocities ==
    /\ call.at = "game_loop"
    /\ Branch = "frame"
    /\ MoreInput
    /\ objects' = update_velocities(objects, keys)
    /\ call' = [at |-> "reset", k |-> 1]
    /\ UNCHANGED <<trash, keys, player_health, coins_collected, input>>

\* Game.__check_collisions: player.collision = Collision() (k = 1) and
\* obj.collision = Collision() (k > 1)
ResetCollision ==
    /\ call.at = "reset"
    /\ objects' = reset_collision(objects, call.k)
    /\ call' = IF call.k = 1 THEN next_object(objects, 1)
               ELSE [at |-> "player_check", k |-> call.k]
    /\ UNCHANGED <<trash, keys, player_health, coins_collected, input>>

\* Game.__check_collisions: player.check_collision(obj, self.__trash)
PlayerCheck ==
    /\ call.at = "player_check"
    /\ LET c == checked(objects, trash, 1, call.k)
       IN  objects' = c.objects /\ trash' = c.trash
    /\ call' = IF objects[call.k].type = "MONSTER"
               THEN [at |-> "monster_check", k |-> call.k, j |-> 1]
               ELSE next_object(objects, call.k)
    /\ UNCHANGED <<keys, player_health, coins_collected, input>>

\* Game.__check_collisions: one round of `for o2 in self.__objects`, which
\* calls obj.check_collision(o2, self.__trash) unless o2 is obj
MonsterCheck ==
    /\ call.at = "monster_check"
    /\ LET c == IF objects[call.k].id = objects[call.j].id
                THEN [objects |-> objects, trash |-> trash]
                ELSE checked(objects, trash, call.k, call.j)
       IN  objects' = c.objects /\ trash' = c.trash
    /\ call' = IF call.j + 1 > Len(objects) THEN next_object(objects, call.k)
               ELSE [call EXCEPT !.j = @ + 1]
    /\ UNCHANGED <<keys, player_health, coins_collected, input>>

\* Game.__render_frame: self.__move_objects()
MoveObjects ==
    /\ call.at = "move_objects"
    /\ objects' = move_objects(objects)
    /\ call' = [at |-> "clean_trash"]
    /\ UNCHANGED <<trash, keys, player_health, coins_collected, input>>

\* Game.__render_frame: self.__clean_trash(); then game_loop handles the events
CleanTrash ==
    /\ call.at = "clean_trash"
    /\ LET f == clean_trash(objects, trash, player_health, coins_collected)
       IN  /\ objects' = f.objects
           /\ trash' = f.trash
           /\ player_health' = f.player_health
           /\ coins_collected' = f.coins_collected
    /\ handle_events
    /\ call' = [at |-> "game_loop"]

\* Image sizes for which the level is tried besides the standard ones: a
\* player narrower than a coin and a monster, and taller than a coin.
SceneImages ==
    { StandardImages,
      [PLAYER |-> Point(20, 60), MONSTER |-> Point(50, 70), COIN |-> Point(40, 40)] }

\* Places of the player in the spawned level: the spawn point, on the floor,
\* on the left wall, beside, across and at the corner of the coin at
\* (400, 350), and beside, on top of and inside the monster at (300, 380).
ScenePositions ==
    { Point(20, 300), Point(20, 364), Point(20, 390), Point(20, 114), Point(350, 264),
      Point(365, 300), Point(410, 340), Point(310, 330), Point(315, 400), Point(280, 364) }

SceneKeys == { {}, {"UP", "RIGHT"} }

\* the level as spawned, with the player somewhere in it and keys held
SceneInit ==
    /\ \E img \in SceneImages : \E p \in ScenePositions :
          objects = [spawn_objects(img) EXCEPT ![1].pos = p]
    /\ trash = {}
    /\ keys \in SceneKeys
    /\ player_health = 2
    /\ coins_collected = 0
    /\ call = [at |-> "game_loop"]
    /\ input = [plans |-> {}, step |-> 0, free |-> 0]

CallsNext ==
    UpdateVelocities \/ ResetCollision \/ PlayerCheck \/ MonsterCheck \/ MoveObjects \/ CleanTrash

SpecCalls == SceneInit /\ [][CallsNext]_vars

------------------------------------------------------------------------------
(* Properties of the movement step *)

\* the objects that move: the player and the monsters
Moving(objs) == {i \in 1..Len(objs) : objs[i].type \in {"PLAYER", "MONSTER"}}

\* C1: after every movement step the y of the player and of every monster is
\* within the borders, top <= y <= bottom - hitbox.y; a jumping player never
\* gets above the top border.
C1_VerticalBounds ==
    \A i \in Moving(objects) :
        /\ borders.top <= objects[i].pos.y
        /\ objects[i].pos.y <= borders.bottom - objects[i].hitbox.y

\* C2: from the spawned level on, after every movement step the x of the
\* player and of every monster satisfies left + 20 <= x <= right - 20 - hitbox.x,
\* also when a blocked side made move() keep the old x.
C2_HorizontalBounds ==
    \A i \in Moving(objects) :
        /\ borders.left + 20 <= objects[i].pos.x
        /\ objects[i].pos.x <= borders.right - 20 - objects[i].hitbox.x

\* A frame has run in which the player, moving right at a speed that is left
\* after the decay, was blocked on its right side and kept its x.
C2_Witness ==
    /\ input.step > 0
    /\ objects[1].collision.right
    /\ objects[1].vel.x > 0
    /\ objects[1].pos.x + objects[1].vel.x <= borders.right - 20 - objects[1].hitbox.x

------------------------------------------------------------------------------
(* Properties of the order of the calls in a frame *)

\* the flags this frame's collision detection computes from the state an
\* iteration starts in
fresh_flags == check_collisions(update_velocities(objects, keys), trash).objects

\* C3: no stale collision flag is read.  The flags the velocity decisions of a
\* frame read before the detection has run (the left and right flag of a
\* monster for its flip, the bottom flag of the player for the permission to
\* jump) are the flags that frame's collision detection computes.
C3_NoStaleFlags ==
    (call.at = "game_loop" /\ Branch = "frame") =>
        \A i \in Moving(objects) :
            /\ objects[i].type = "MONSTER" =>
                 /\ objects[i].collision.left = fresh_flags[i].collision.left
                 /\ objects[i].collision.right = fresh_flags[i].collision.right
            /\ objects[i].type = "PLAYER" =>
                 objects[i].collision.bottom = fresh_flags[i].collision.bottom

------------------------------------------------------------------------------
(* Properties of the collision flags, call by call *)

Sides == {"left", "right", "top", "bottom"}

\* the flags of self only grow from objs to objs2 and no other object's flags change
OnlySets(objs, objs2, self) ==
    /\ Len(objs2) = Len(objs)
    /\ \A i \in 1..Len(objs) :
          IF i = self
          THEN \A f \in Sides : objs[i].collision[f] => objs2[i].collision[f]
          ELSE objs2[i].collision = objs[i].collision

\* every object of objs2 has the flags it has in objs
FlagsKept(objs, objs2) ==
    \A i \in 1..Len(objs) : \A j \in 1..Len(objs2) :
        objs2[j].id = objs[i].id => objs2[j].collision = objs[i].collision

\* one step of a frame, as far as the collision flags go
C4_Step ==
    /\ call.at = "reset" =>
          /\ objects'[call.k].collision = Collision
          /\ \A i \in 1..Len(objects) : i # call.k => objects'[i].collision = objects[i].collision
    /\ (call'.at = "player_check" /\ call'.k = 2) => objects'[1].collision = Collision
    /\ (call'.at = "monster_check" /\ call'.j = 1) => objects'[call'.k].collision = Collision
    /\ call.at = "player_check" => OnlySets(objects, objects', 1)
    /\ call.at = "monster_check" => OnlySets(objects, objects', call.k)
    /\ call.at \in {"move_objects", "clean_trash"} => FlagsKept(objects, objects')

\* C4: within one run of __check_collisions every object has all four flags
\* false right after its reset and before the first check_collision call with
\* it as self; every check_collision call only turns flags of self from false
\* to true and leaves the flags of all other objects alone; the flags then
\* stay as they are for the rest of the frame.
C4_FlagsResetThenOnlySet == [][C4_Step]_vars

\* The detection of a frame is over; the player stands on the floor, the first
\* object it was checked against, and on nothing else, and the bottom flag
\* set by that first call is still set after the calls for all other objects.
C4_Witness ==
    /\ call.at = "move_objects"
    /\ objects[1].collision.bottom
    /\ bottom_hit(objects[1], objects[2])
    /\ \A k \in 3..Len(objects) : ~bottom_hit(objects[1], objects[k])

------------------------------------------------------------------------------
(* Properties of picking up coins, of meeting monsters and of the cleanup *)

\* two boxes overlap: they have a point in common that is on the edge of neither
Overlap(a, b) ==
    /\ a.pos.x < own_right_border(b) /\ b.pos.x < own_right_border(a)
    /\ a.pos.y < own_bottom_border(b) /\ b.pos.y < own_bottom_border(a)

\* the objects of a type whose box overlaps the player's box
Overlapping(type) ==
    {i \in 2..Len(objects) : objects[i].type = type /\ Overlap(objects[1], objects[i])}

Ids(objs) == {objs[i].id : i \in 1..Len(objs)}

\* the identities in the trash that are of a type
Trashed(type) == {id \in trash : TypeOf(id) = type}

\* C5: when the detection of a frame is over, every coin whose box overlaps
\* the player's box is in the trash; the cleanup of that frame then adds
\* exactly 1 to coins_collected for each coin in the trash, however many sides
\* called the hook, and no such coin is in the list of objects afterwards.
C5_Step ==
    /\ call.at = "move_objects" =>
          \A i \in Overlapping("COIN") : objects[i].id \in trash
    /\ call.at = "clean_trash" =>
          /\ coins_collected' = coins_collected + Cardinality(Trashed("COIN"))
          /\ Ids(objects') \cap Trashed("COIN") = {}

C5_OverlappingCoinCollected == [][C5_Step]_vars

\* C6: when the detection of a frame is over, every monster whose box overlaps
\* the player's box is in the trash, whichever side of the player the contact
\* is on; the cleanup of that frame then takes exactly 1 off player_health for
\* each monster in the trash, and no such monster is in the list afterwards.
C6_Step ==
    /\ call.at = "move_objects" =>
          \A i \in Overlapping("MONSTER") : objects[i].id \in trash
    /\ call.at = "clean_trash" =>
          /\ player_health' = player_health - Cardinality(Trashed("MONSTER"))
          /\ Ids(objects') \cap Trashed("MONSTER") = {}

C6_OverlappingMonsterHits == [][C6_Step]_vars

\* the objects of objs whose identity is not in tr, in their order
Kept(objs, tr) == SelectSeq(objs, LAMBDA o : o.id \notin tr)

\* C7: removal is idempotent and exact.  The cleanup removes every object in
\* the trash exactly once, however often its removal was requested, keeps every
\* other object, in order, and leaves the trash empty; removing an object that
\* is not in the list changes nothing.
C7_Step ==
    /\ call.at = "clean_trash" =>
          /\ objects' = Kept(objects, trash)
          /\ Len(objects') = Len(objects) - Cardinality(trash)
          /\ trash' = {}
    /\ call'.at = "game_loop" =>
          /\ trash' = {}
          /\ \A id \in 1..(1 + Len(wall_positions) + Len(monster_positions) + Len(coin_positions)) :
                id \notin Ids(objects') => remove(objects', id) = objects'

C7_RemovalExact == [][C7_Step]_vars

\* A cleanup has removed the coin at (400, 350), which the player touched with
\* its right and with its bottom side in that frame, so that the hook was
\* called twice for it.
C7_Witness ==
    /\ call.at = "game_loop"
    /\ input.step + input.free > 0
    /\ coins_collected = 1
    /\ Len(objects) = Len(spawn_objects(StandardImages)) - 1
    /\ objects[1].collision.right
    /\ objects[1].collision.bottom
    /\ trash = {}

------------------------------------------------------------------------------
(* Properties of the end of the game *)

\* a step that is an iteration of game_loop
Iteration == call.at = "game_loop" /\ call'.at = "game_loop"

\* an iteration that changes no object, and neither counter
NothingChanges ==
    /\ objects' = objects
    /\ player_health' = player_health
    /\ coins_collected' = coins_collected

\* C8: once coins_collected is 5, every iteration of game_loop takes the win
\* branch and changes no position, no velocity, not the list of objects and
\* neither counter, whatever keys are held.
C8_WonIsTerminal ==
    [][(Iteration /\ coins_collected = 5) => (Branch = "win" /\ NothingChanges)]_vars

\* The winning play was played to its end: the fifth coin was taken some
\* iterations before, and the iterations since ran with keys held.
C8_Witness ==
    /\ coins_collected = 5
    /\ player_health > 0
    /\ input.plans = {1}
    /\ input.step = Len(Plans[1])
    /\ keys # {}

\* C9 as stated: once a cleanup has brought player_health to 0, every
\* iteration of game_loop takes the game over branch and changes nothing.
C9_LostIsTerminal ==
    [][(Iteration /\ player_health = 0) => (Branch = "over" /\ NothingChanges)]_vars

\* C9, amended: once a cleanup has brought player_health to 0, every iteration
\* of game_loop takes the game over branch, or the win branch when
\* coins_collected is 5, and changes nothing.
C9_LostOrWonIsTerminal ==
    [][(Iteration /\ player_health = 0) =>
          /\ Branch = (IF coins_collected = 5 THEN "win" ELSE "over")
          /\ NothingChanges]_vars

\* The losing play was played to its end: the second monster was met some
\* iterations before, with coins left, and the iterations since ran with keys
\* held.
C9_Witness ==
    /\ player_health = 0
    /\ coins_collected < 5
    /\ input.plans = {2}
    /\ input.step = Len(Plans[2])
    /\ keys # {}

------------------------------------------------------------------------------
(* Monster.update_velocity on its own *)

\* the velocities and the flags a monster is given
MonsterVelocities == {Point(x, y) : x \in -1..1, y \in -1..1}
Collisions == [left : BOOLEAN, right : BOOLEAN, top : BOOLEAN, bottom : BOOLEAN]

\* a monster with some velocity and some flags, before the call
MonsterInit ==
    /\ \E v \in MonsterVelocities : \E c \in Collisions :
          objects = << [NewObject(10, "MONSTER", Point(300, 380), v, StandardImages.MONSTER)
                           EXCEPT !.collision = c] >>
    /\ trash = {}
    /\ keys = {}
    /\ player_health = 2
    /\ coins_collected = 0
    /\ call = [at |-> "update_velocity"]
    /\ input = [plans |-> {}, step |-> 0, free |-> 0]

\* the call obj.update_velocity() of Game.__update_velocities for a monster
MonsterUpdate ==
    /\ call.at = "update_velocity"
    /\ objects' = << Monster_update_velocity(objects[1]) >>
    /\ call' = [at |-> "return"]
    /\ UNCHANGED <<trash, keys, player_health, coins_collected, input>>

SpecMonster == MonsterInit /\ [][MonsterUpdate]_vars

\* C10 as stated: for every combination of the four flags, a monster whose
\* left flag is true has the velocity (1, 0) after the update, one whose right
\* flag is true has the velocity (-1, 0), and one with neither keeps its
\* velocity.
C10_FlipOnEitherFlag ==
    [][call.at = "update_velocity" =>
          /\ objects[1].collision.left => objects'[1].vel = Point(1, 0)
          /\ objects[1].collision.right => objects'[1].vel = Point(-1, 0)
          /\ (~objects[1].collision.left /\ ~objects[1].collision.right) =>
                objects'[1].vel = objects[1].vel]_vars

\* C10, amended: for every combination of the four flags, a monster whose left
\* flag is true has the velocity (1, 0) after the update, one whose right flag
\* is true and whose left flag is false has the velocity (-1, 0), and one with
\* neither keeps its velocity.
C10_FlipLeftFlagFirst ==
    [][call.at = "update_velocity" =>
          /\ objects[1].collision.left => objects'[1].vel = Point(1, 0)
          /\ (objects[1].collision.right /\ ~objects[1].collision.left) =>
                objects'[1].vel = Point(-1, 0)
          /\ (~objects[1].collision.left /\ ~objects[1].collision.right) =>
                objects'[1].vel = objects[1].vel]_vars

\* The update has run for a monster with both the left and the right flag
\* set, and the monster moves to the right.
C10_Witness ==
    /\ call.at = "return"
    /\ objects[1].collision.left
    /\ objects[1].collision.right
    /\ objects[1].vel = Point(1, 0)

------------------------------------------------------------------------------
(* Properties of standing, of blocked sides and of the velocities *)

\* the player stands on a wall: its bottom edge is the top edge of a wall
\* whose horizontal span meets the player's
StandsOnWall(objs) ==
    \E k \in 2..Len(objs) :
        /\ objs[k].type = "WALL"
        /\ own_bottom_border(objs[1]) = objs[k].pos.y
        /\ objs[1].pos.x <= own_right_border(objs[k])
        /\ objs[k].pos.x <= own_right_border(objs[1])

\* C11: when the detection of a frame is over and the player, with a velocity
\* of zero, stands on a wall, its bottom flag is set, the velocity update of
\* the movement step takes no gravity off (the velocity stays zero), and with
\* no key held the movement step, the only step of the frame that could,
\* changes neither the position nor the velocity of the player.
C11_Step ==
    (call.at = "move_objects" /\ objects[1].vel = Point(0, 0) /\ StandsOnWall(objects)) =>
        /\ objects[1].collision.bottom
        /\ objects'[1].vel = Point(0, 0)
        /\ keys = {} => (objects'[1].pos = objects[1].pos /\ objects'[1].vel = objects[1].vel)

C11_StandingPlayerStays == [][C11_Step]_vars

\* The movement step of a frame without keys has run for a player that stands
\* on the floor with a velocity of zero.
C11_Witness ==
    /\ call.at = "clean_trash"
    /\ keys = {}
    /\ objects[1].vel = Point(0, 0)
    /\ objects[1].collision.bottom
    /\ StandsOnWall(objects)

\* an iteration of game_loop that runs a frame
FrameStep == Iteration /\ Branch = "frame"

\* the movement step of a frame for the object that is o before the frame and
\* n after it: the step starts from o's position with the velocity and the
\* flags n has, and keeps the coordinate of every blocked side
BlockedSidesKept(o, n) ==
    LET x == clamp_x([o EXCEPT !.vel = n.vel])
        y == clamp_y([o EXCEPT !.vel = n.vel])
    IN  /\ (n.collision.right /\ x > o.pos.x) => n.pos.x = o.pos.x
        /\ (n.collision.left /\ x < o.pos.x) => n.pos.x = o.pos.x
        /\ (n.collision.bottom /\ y > o.pos.y) => n.pos.y = o.pos.y
        /\ (n.collision.top /\ y < o.pos.y) => n.pos.y = o.pos.y

\* C12: in the movement step of the player and of every monster a set right
\* flag keeps the x when the clamped new x is greater, a set left flag keeps it
\* when the new x is smaller, a set bottom flag keeps the y when the new y is
\* greater and a set top flag keeps it when the new y is smaller.
C12_BlockedSidesKeepPosition ==
    [][FrameStep =>
          \A i \in Moving(objects) : \A j \in 1..Len(objects') :
              objects'[j].id = objects[i].id => BlockedSidesKept(objects[i], objects'[j])]_vars

\* the position Object.move gives the object that is o before the frame and n
\* after it, had the movement step integrated the velocity v
Integrated(o, n, v) == blocked_move([o EXCEPT !.vel = v, !.collision = n.collision]).pos

\* C13: an input override is the velocity of its frame.  In a frame in which a
\* held RIGHT or LEFT key sets the horizontal velocity of the player to 8 or
\* -8, the position is integrated with exactly that velocity, and in a frame
\* in which a held UP key triggers the jump, with exactly 30 vertically.
C13_InputVelocityIntegrated ==
    [][FrameStep =>
          /\ "RIGHT" \in keys =>
                objects'[1].pos.x = Integrated(objects[1], objects'[1], Point(8, 0)).x
          /\ ("LEFT" \in keys /\ "RIGHT" \notin keys) =>
                objects'[1].pos.x = Integrated(objects[1], objects'[1], Point(-8, 0)).x
          /\ ("UP" \in keys /\ objects[1].collision.bottom) =>
                objects'[1].pos.y = Integrated(objects[1], objects'[1], Point(0, 30)).y]_vars

------------------------------------------------------------------------------
(* Player.update_velocity on its own *)

\* The greatest speed, on either axis, the player is given before the call.
MaxSpeed == 31

\* a player with some velocity and some flags, before the call
PlayerInit ==
    /\ \E vx \in -MaxSpeed..MaxSpeed : \E vy \in -MaxSpeed..MaxSpeed : \E c \in Collisions :
          objects = << [NewObject(1, "PLAYER", Point(20, 300), Point(vx, vy), StandardImages.PLAYER)
                           EXCEPT !.collision = c] >>
    /\ trash = {}
    /\ keys = {}
    /\ player_health = 2
    /\ coins_collected = 0
    /\ call = [at |-> "update_velocity"]
    /\ input = [plans |-> {}, step |-> 0, free |-> 0]

\* the call self.update_velocity(borders) of Object.move for the player
PlayerUpdate ==
    /\ call.at = "update_velocity"
    /\ objects' = << Player_update_velocity(objects[1]) >>
    /\ call' = [at |-> "return"]
    /\ UNCHANGED <<trash, keys, player_health, coins_collected, input>>

SpecPlayer == PlayerInit /\ [][PlayerUpdate]_vars

Sign(v) == IF v > 0 THEN 1 ELSE IF v < 0 THEN -1 ELSE 0
Abs(v) == IF v < 0 THEN -v ELSE v

\* C14: Player.update_velocity moves vx by 1 toward zero and leaves a vx of 0;
\* it moves vy by 1 toward zero, leaving a vy of 0, and then takes 2 off
\* exactly when the bottom flag is false.  So vy gets strictly smaller in a
\* call with the bottom flag false, and |vy| gets no greater in a call with
\* the bottom flag true.  Nothing but the velocity changes.
C14_DecayAndGravity ==
    [][call.at = "update_velocity" =>
          LET o == objects[1]
              n == objects'[1]
          IN  /\ n.vel.x = o.vel.x - Sign(o.vel.x)
              /\ n.vel.y = o.vel.y - Sign(o.vel.y) - (IF o.collision.bottom THEN 0 ELSE 2)
              /\ ~o.collision.bottom => n.vel.y < o.vel.y
              /\ o.collision.bottom => Abs(n.vel.y) <= Abs(o.vel.y)
              /\ n = [o EXCEPT !.vel = n.vel]]_vars

\* The call has run for a player in the air that had the velocity (8, 30) of
\* a jump to the right.
C14_Witness ==
    /\ call.at = "return"
    /\ objects[1].type = "PLAYER"
    /\ ~objects[1].collision.bottom
    /\ objects[1].vel = Point(7, 27)

------------------------------------------------------------------------------
(* Object.check_collision on its own *)

\* The greatest width and height of a box, and the greatest coordinate of
\* self; other is at (OtherAt, OtherAt).
MaxSize == 3
MaxPos == 5
OtherAt == 2

\* two objects with all flags false, before the call self.check_collision(other, trash)
CheckInit ==
    /\ \E st \in {"PLAYER", "MONSTER"} : \E ot \in {"WALL", "COIN", "MONSTER"} :
       \E sx \in 0..MaxPos : \E sy \in 0..MaxPos :
       \E sw \in 1..MaxSize : \E sh \in 1..MaxSize :
       \E ow \in 1..MaxSize : \E oh \in 1..MaxSize :
          objects = << NewObject(1, st, Point(sx, sy), Point(0, 0), Point(sw, sh)),
                       NewObject(2, ot, Point(OtherAt, OtherAt), Point(0, 0), Point(ow, oh)) >>
    /\ trash = {}
    /\ keys = {}
    /\ player_health = 2
    /\ coins_collected = 0
    /\ call = [at |-> "check_collision"]
    /\ input = [plans |-> {}, step |-> 0, free |-> 0]

\* the call self.check_collision(other, trash)
CheckCollision ==
    /\ call.at = "check_collision"
    /\ \E r \in {check_collision(objects[1], objects[2], trash)} :
          /\ objects' = << r.self, objects[2] >>
          /\ trash' = r.trash
    /\ call' = [at |-> "return"]
    /\ UNCHANGED <<keys, player_health, coins_collected, input>>

SpecCheck == CheckInit /\ [][CheckCollision]_vars

\* two boxes intersect, touching edges included
Intersect(a, b) ==
    /\ a.pos.x <= own_right_border(b) /\ b.pos.x <= own_right_border(a)
    /\ a.pos.y <= own_bottom_border(b) /\ b.pos.y <= own_bottom_border(a)

\* C15: check_collision sets at least one of the four flags of self if and
\* only if the boxes of self and other intersect, touching edges included; no
\* overlapping pair leaves all four flags unset.
C15_FlagIffIntersect ==
    [][call.at = "check_collision" =>
          ((\E f \in Sides : objects'[1].collision[f]) <=> Intersect(objects[1], objects[2]))]_vars

------------------------------------------------------------------------------
(* Properties of the kinds of objects *)

\* the object with the identity id as it was spawned
Spawned(id) == spawn_objects(StandardImages)[id]

\* C16: a coin and a wall are never changed: as long as it is in the list it
\* has the position it was spawned at and the velocity (0, 0), and it is
\* never the self of a check_collision call, which is the player in the
\* player's calls and a monster in all others; so its flags are never set.
C16_StaticKindsUnchanged ==
    /\ \A i \in 1..Len(objects) :
          objects[i].type \in {"WALL", "COIN"} =>
              /\ objects[i].pos = Spawned(objects[i].id).pos
              /\ objects[i].vel = Point(0, 0)
              /\ objects[i].collision = Collision
    /\ call.at = "player_check" => objects[1].type = "PLAYER"
    /\ call.at = "monster_check" => objects[call.k].type = "MONSTER"

\* The movement step of a frame after the first has run, the player moves,
\* and walls and coins are in the list.
C16_Witness ==
    /\ call.at = "clean_trash"
    /\ input.free > 0
    /\ objects[1].vel # Point(0, 0)
    /\ \E i \in 1..Len(objects) : objects[i].type = "COIN"
    /\ \E i \in 1..Len(objects) : objects[i].type = "WALL"

\* C17: monsters patrol at constant height and unit speed: in every state the
\* velocity of every monster is (1, 0) or (-1, 0) and its y is the y it was
\* spawned at, whatever collisions occur.
C17_MonstersPatrol ==
    \A i \in 1..Len(objects) :
        objects[i].type = "MONSTER" =>
            /\ objects[i].vel \in {Point(1, 0), Point(-1, 0)}
            /\ objects[i].pos.y = Spawned(objects[i].id).pos.y

\* A monster has met a wall on its right, has turned and walks to the left,
\* away from where it was spawned.
C17_Witness ==
    \E i \in 1..Len(objects) :
        /\ objects[i].type = "MONSTER"
        /\ objects[i].vel = Point(-1, 0)
        /\ objects[i].pos.x # Spawned(objects[i].id).pos.x

\* the objects of a frame's start that a check_collision call of the player
\* puts in the trash
PlayerRequests ==
    {objects[k].id : k \in {n \in 2..Len(objects) :
                               check_collision(objects[1], objects[n], {}).trash # {}}}

\* the list holds exactly one player, at index 0 of the Python list
OnePlayerFirst(objs) ==
    /\ objs[1].type = "PLAYER"
    /\ \A i \in 2..Len(objs) : objs[i].type # "PLAYER"

\* C18: the list always holds exactly one player, first in the list; the
\* objects a frame removes are coins and monsters only, and they are exactly
\* the objects the player's own check_collision calls asked to remove, a
\* monster's calls add none; the player and the walls are never removed.
C18_Step ==
    /\ OnePlayerFirst(objects)
    /\ OnePlayerFirst(objects')
    /\ \A id \in Ids(objects) \ Ids(objects') : TypeOf(id) \in {"COIN", "MONSTER"}
    /\ FrameStep => Ids(objects) \ Ids(objects') = PlayerRequests
    /\ ~FrameStep => objects' = objects
    /\ trash' = {}

C18_OnlyThePlayerRemoves == [][C18_Step]_vars

\* A frame has run in which a monster touched a coin with its right side, and
\* the coin is still in the list.
C18_Witness ==
    /\ input.step > 0
    /\ \E i \in 1..Len(objects) : \E k \in 1..Len(objects) :
          /\ objects[i].type = "MONSTER"
          /\ objects[k].type = "COIN"
          /\ objects[i].collision.right
          /\ own_right_border(objects[i]) = objects[k].pos.x + 1
          /\ Overlap(objects[i], objects[k])

------------------------------------------------------------------------------
(* Properties of the counters *)

\* how many objects of a type the list holds
Count(objs, type) == Cardinality({i \in 1..Len(objs) : objs[i].type = type})

\* between frames the counters and the list agree
Conserved(objs, health, coins) ==
    /\ coins + Count(objs, "COIN") = Len(coin_positions)
    /\ health = 2 - (Len(monster_positions) - Count(objs, "MONSTER"))

\* C19: between frames coins_collected plus the number of coins in the list is
\* 5 and player_health is 2 less the number of monsters removed so far; the
\* counters change only in the cleanup of a frame, by the number of coins and
\* of monsters that frame removes.
C19_Step ==
    /\ Conserved(objects, player_health, coins_collected)
    /\ Conserved(objects', player_health', coins_collected')
    /\ coins_collected' - coins_collected = Count(objects, "COIN") - Count(objects', "COIN")
    /\ player_health - player_health' = Count(objects, "MONSTER") - Count(objects', "MONSTER")
    /\ ~FrameStep => (coins_collected' = coins_collected /\ player_health' = player_health)

C19_CountersConserved == [][C19_Step]_vars

\* All five coins were taken and one monster was met.
C19_Witness ==
    /\ coins_collected = 5
    /\ player_health = 1
    /\ Count(objects, "COIN") = 0
    /\ Count(objects, "MONSTER") = 2

\* C20: in every state 0 <= player_health <= 2 and 0 <= coins_collected <= 5;
\* no cleanup takes player_health below 0, so that an iteration of game_loop
\* always takes one of its three branches.
C20_CountersInRange ==
    /\ 0 <= player_health /\ player_health <= 2
    /\ 0 <= coins_collected /\ coins_collected <= Len(coin_positions)
    /\ Branch \in {"win", "frame", "over"}

==============================================================================
